---------------------------- MODULE Spec2Model ----------------------------
(***************************************************************************)
(* A model of the Shadow Cube Generator (src/cube_gen.py): the grid        *)
(* editor of ShadowCubeGenerator, the preferences dialog, the triangle     *)
(* mesh assembled by create_stl and the CSG tree of generate_openscad_file.*)
(*                                                                         *)
(* Lengths are fixed-point integers in tenths of a millimetre (the default *)
(* cell_size 3.0 is 30, the default border_thickness 0.4 is 4): every      *)
(* length the program forms is a sum or product of cell_size,              *)
(* border_thickness and integers, so the arithmetic below is exact.        *)
(* Python's None is the empty tuple; a Python list is a sequence (list     *)
(* index i is sequence index i + 1).                                       *)
(***************************************************************************)
EXTENDS Integers, Sequences, FiniteSets, TLC

(***************************************************************************)
(* Program constants.                                                      *)
(***************************************************************************)
MinGridSize == 8
MaxGridSize == 64
BorderMargin == 2
VerticesPerCell == 24
DefaultCellSize == 30
DefaultBorderThickness == 4
DefaultPocketDepth == 2
DefaultMaxRecentFiles == 5

(***************************************************************************)
(* Bounds of the model.                                                    *)
(***************************************************************************)
\* the largest valid number typed into the size field
MaxEnteredSize == 8
\* the largest grid_size found in a project file on disk
MaxFileSize == 4

Views == <<"Top", "Front", "Side">>
ViewSet == {"Top", "Front", "Side"}
NoneVal == <<>>

(***************************************************************************)
(* int(text) of generate_grid: the entered text is a sequence of           *)
(* characters; a text that is not a decimal numeral raises ValueError.     *)
(***************************************************************************)
Digits == <<"0", "1", "2", "3", "4", "5", "6", "7", "8", "9">>

DigitValue(ch) == (CHOOSE i \in 1..10 : Digits[i] = ch) - 1

IsDigit(ch) == \E i \in 1..10 : Digits[i] = ch

RECURSIVE DigitsValue(_)
DigitsValue(text) ==
    IF text = <<>> THEN 0
    ELSE 10 * DigitsValue(SubSeq(text, 1, Len(text) - 1)) + DigitValue(text[Len(text)])

ParseInt(text) ==
    LET body == IF text # <<>> /\ text[1] = "-" THEN Tail(text) ELSE text
    IN  IF body = <<>> \/ \E i \in 1..Len(body) : ~IsDigit(body[i])
        THEN [ok |-> FALSE, value |-> 0]
        ELSE [ok |-> TRUE,
              value |-> IF body = text THEN DigitsValue(body) ELSE 0 - DigitsValue(body)]

RECURSIVE Numeral(_)
Numeral(n) ==
    IF n < 10 THEN <<Digits[n + 1]>> ELSE Append(Numeral(n \div 10), Digits[(n % 10) + 1])

(***************************************************************************)
(* Grids: a view's cells are a list of rows, each a list of booleans.      *)
(***************************************************************************)
FalseGrid(n) == [r \in 1..n |-> [c \in 1..n |-> FALSE]]

TrueGrid(n) == [r \in 1..n |-> [c \in 1..n |-> TRUE]]

CheckerGrid(n, phase) == [r \in 1..n |-> [c \in 1..n |-> (r + c + phase) % 2 = 0]]

EmptyGrids == [v \in ViewSet |-> <<>>]

\* grid[row][col] raises IndexError
Missing(cells, row, col) ==
    \/ row + 1 > Len(cells)
    \/ col + 1 > Len(cells[row + 1])

\* the row-major position, in range(size) x range(size), of the first cell
\* whose access raises IndexError; size * size when every access succeeds
FirstMissing(cells, size) ==
    LET short == {r \in 0..(size - 1) : r + 1 > Len(cells) \/ Len(cells[r + 1]) < size}
        row == CHOOSE r \in short : \A q \in short : r <= q
    IN  IF short = {} THEN size * size
        ELSE row * size + (IF row + 1 > Len(cells) THEN 0 ELSE Len(cells[row + 1]))

\* the nested loops "for row in range(size): for col in range(size):
\* cells[row][col] = f(cells[row][col])" up to the first IndexError
Flip(b) == ~b

Reset(b) == FALSE

ApplyClear(cells, size) ==
    LET stop == FirstMissing(cells, size)
    IN  [r \in 1..Len(cells) |-> [c \in 1..Len(cells[r]) |->
            IF r <= size /\ c <= size /\ (r - 1) * size + (c - 1) < stop
            THEN Reset(cells[r][c]) ELSE cells[r][c]]]

ApplyInvert(cells, size) ==
    LET stop == FirstMissing(cells, size)
    IN  [r \in 1..Len(cells) |-> [c \in 1..Len(cells[r]) |->
            IF r <= size /\ c <= size /\ (r - 1) * size + (c - 1) < stop
            THEN Flip(cells[r][c]) ELSE cells[r][c]]]

(***************************************************************************)
(* Paths: a path is the sequence of its directories followed by the stem   *)
(* and the extension of the file name.                                     *)
(***************************************************************************)
DirName(path) == SubSeq(path, 1, Len(path) - 2)

ProjectName(path) == path[Len(path) - 1]

(***************************************************************************)
(* Project files on disk. A file written by save_project_to_file holds a   *)
(* grid_size and three grid_size x grid_size grids; load_project reads     *)
(* whatever JSON object the chosen file holds, so a file may hold a        *)
(* grid_size generate_grid would reject, or one its grids do not have.     *)
(* GoodFile(n) is what projects/small.grid may hold.                       *)
(***************************************************************************)
GoodFile(n) ==
    [path |-> <<"projects", "small", ".grid">>,
     grid_size |-> n,
     grid_cells |-> [v \in ViewSet |->
        IF v = "Top" THEN CheckerGrid(n, 0)
        ELSE IF v = "Front" THEN TrueGrid(n) ELSE FalseGrid(n)]]

MismatchFile ==
    [path |-> <<"projects", "mismatch", ".grid">>,
     grid_size |-> 4,
     grid_cells |-> [v \in ViewSet |-> CheckerGrid(3, 0)]]

GoodFiles == {GoodFile(n) : n \in 4..MaxFileSize}

\* files whose grid_size generate_grid would accept
ValidFiles == {GoodFile(n) : n \in MinGridSize..MaxEnteredSize}

ProjectFiles == GoodFiles \cup {MismatchFile}

\* what save_project_as writes to projects/cube.grid after new_project
ZeroFile ==
    [path |-> <<"projects", "cube", ".grid">>,
     grid_size |-> 0,
     grid_cells |-> EmptyGrids]

(***************************************************************************)
(* State.                                                                  *)
(***************************************************************************)
VARIABLES
    grid_size,              \* self.grid_size
    grid_cells,             \* self.grid_cells: view -> list of rows
    grid_canvases,          \* self.grid_canvases: view -> the canvas drawn by show_view
    project_modified,       \* self.project_modified
    current_project_path,   \* self.current_project_path
    project_directory,      \* self.project_directory
    project_name,           \* self.project_name
    preferences,            \* self.preferences, but for its recent_files entry
    recent_files,           \* self.preferences['recent_files']
    exported_stls,          \* self.exported_stls: view -> path of the written mesh
    pc,                     \* where the running export handler stands
    export_view,            \* index in the export's view list of the view being built
    cell_pos,               \* row-major position of the next cell of create_stl's loop
    vertices,               \* create_stl's vertices list
    faces,                  \* create_stl's faces list
    face_cell,              \* history: the row-major position of the cell that emitted each face
    printed,                \* stdout: the "row: col: type:" lines create_stl prints
    stl_mesh,               \* grid_mesh after create_stl's transform, as written
    built,                  \* history: view -> the lists of the last build from the current inputs
    scad                    \* history: the CSG tree last handed to scad_render_to_file

editorVars == <<grid_size, grid_cells, grid_canvases, project_modified,
                current_project_path, project_directory, project_name>>

ctlVars == <<pc, export_view, cell_pos>>

listVars == <<vertices, faces, face_cell, printed, stl_mesh>>

vars == <<grid_size, grid_cells, grid_canvases, project_modified,
          current_project_path, project_directory, project_name, preferences,
          recent_files, exported_stls, pc, export_view, cell_pos, vertices, faces, face_cell,
          printed, stl_mesh, built, scad>>

(***************************************************************************)
(* Canvases. A canvas is absent ("none"), a destroyed widget still held by *)
(* the dictionary ("dead"), or live; a live canvas maps every cell that    *)
(* has a click binding to its fill colour.                                 *)
(***************************************************************************)
NoFill == [cell \in {} |-> "white"]

NoCanvas == [state |-> "none", fill |-> NoFill]

DeadCanvas == [state |-> "dead", fill |-> NoFill]

\* show_view's is_border: the two-cell margin the editor marks with an X
IsMarkedBorder(row, col, size) ==
    \/ row < BorderMargin \/ row >= size - BorderMargin
    \/ col < BorderMargin \/ col >= size - BorderMargin

\* the columns of the cells show_view gives a click binding
Unmarked(size) == BorderMargin..(size - BorderMargin - 1)

\* show_view reads cells[row][col] of an unmarked cell only when the grid is
\* non-empty and has the row: the read raises IndexError in a row too short
ShowView(old, cells, size) ==
    IF size = 0
    THEN \* 500 // self.grid_size raises ZeroDivisionError after the old canvas is destroyed
         [raised |-> TRUE, canvas |-> IF old.state = "none" THEN NoCanvas ELSE DeadCanvas]
    ELSE LET short == {r \in Unmarked(size) :
                          /\ cells # <<>> /\ Len(cells) > r
                          /\ Len(cells[r + 1]) < size - BorderMargin}
             row == CHOOSE r \in short : \A q \in short : r <= q
             stop == IF short = {} THEN size * size
                     ELSE row * size + (IF Len(cells[row + 1]) > BorderMargin
                                        THEN Len(cells[row + 1]) ELSE BorderMargin)
             bound == {cell \in Unmarked(size) \X Unmarked(size) :
                          cell[1] * size + cell[2] < stop}
         IN  [raised |-> short # {},
              canvas |-> [state |-> "live",
                          fill |-> [cell \in bound |->
                              IF cells # <<>> /\ Len(cells) > cell[1]
                                 /\ cells[cell[1] + 1][cell[2] + 1]
                              THEN "black" ELSE "white"]]]

(***************************************************************************)
(* The list of recent files. list.remove(path) removes the first entry     *)
(* equal to path; list[:n] keeps the first n entries, and all but the last *)
(* -n of them when n is negative.                                          *)
(***************************************************************************)
InList(list, path) == \E i \in 1..Len(list) : list[i] = path

ListRemove(list, path) ==
    LET first == CHOOSE i \in 1..Len(list) :
                     list[i] = path /\ \A j \in 1..(i - 1) : list[j] # path
    IN  SubSeq(list, 1, first - 1) \o SubSeq(list, first + 1, Len(list))

SliceTo(list, n) ==
    LET stop == IF n >= 0 THEN n ELSE Len(list) + n
    IN  SubSeq(list, 1, IF stop > Len(list) THEN Len(list) ELSE stop)

\* add_to_recent_files with the new path put at the end of the list
AddAtEnd(list, path, max_recent) ==
    SliceTo((IF InList(list, path) THEN ListRemove(list, path) ELSE list) \o <<path>>,
            max_recent)

AddToRecentFiles(list, path, max_recent) ==
    LET removed == IF InList(list, path) THEN ListRemove(list, path) ELSE list
        inserted == <<path>> \o removed
    IN  SliceTo(inserted, max_recent)

(***************************************************************************)
(* Initial state: ShadowCubeGenerator.__init__ with no preferences.json.   *)
(***************************************************************************)
DefaultPreferences ==
    [cell_size |-> DefaultCellSize,
     border_thickness |-> DefaultBorderThickness,
     pocket_depth |-> DefaultPocketDepth,
     max_recent_files |-> DefaultMaxRecentFiles,
     openscad_binary |-> NoneVal]

\* no mesh: scale 0 and no vectors
NoMesh == [scale |-> 0, original_center |-> <<0, 0, 0>>, rotated |-> <<>>,
           translation |-> <<0, 0, 0>>]

NoBuild == [done |-> FALSE, vertices |-> <<>>, faces |-> <<>>]

NoScad == [written |-> FALSE, side |-> 0, holes |-> [v \in ViewSet |-> <<>>], order |-> <<>>,
           tree |-> <<>>]

Init ==
    /\ grid_size = 0
    /\ grid_cells = EmptyGrids
    /\ grid_canvases = [v \in ViewSet |-> NoCanvas]
    /\ project_modified = FALSE
    /\ current_project_path = NoneVal
    /\ project_directory = NoneVal
    /\ project_name = NoneVal
    /\ preferences = DefaultPreferences
    /\ recent_files = <<>>
    /\ exported_stls = [v \in ViewSet |-> NoneVal]
    /\ pc = "idle"
    /\ export_view = 0
    /\ cell_pos = 0
    /\ vertices = <<>>
    /\ faces = <<>>
    /\ face_cell = <<>>
    /\ printed = <<>>
    /\ stl_mesh = NoMesh
    /\ built = [v \in ViewSet |-> NoBuild]
    /\ scad = NoScad

(***************************************************************************)
(* The locals of create_stl are dead once an export has returned; the      *)
(* model keeps the lists of the last call, and the history variables built *)
(* and scad keep the last mesh lists of each view and the last CSG tree,   *)
(* for as long as the program holds the inputs they were made from: a step *)
(* that changes the grids, the grid size or the preferences forgets them   *)
(* (and a mesh export forgets the CSG tree, whose temp.scad export_openscad*)
(* has removed).                                                           *)
(***************************************************************************)
NoBuilds == [v \in ViewSet |-> NoBuild]

HistoryFollows ==
    LET same == <<grid_size', grid_cells', preferences'>> = <<grid_size, grid_cells, preferences>>
    IN  /\ built' = IF same THEN built ELSE NoBuilds
        /\ scad' = IF same THEN scad ELSE NoScad
        /\ vertices' = IF same THEN vertices ELSE <<>>
        /\ faces' = IF same THEN faces ELSE <<>>
        /\ face_cell' = IF same THEN face_cell ELSE <<>>
        /\ printed' = IF same THEN printed ELSE <<>>
        /\ stl_mesh' = IF same THEN stl_mesh ELSE NoMesh

(***************************************************************************)
(* generate_grid: the entered text is parsed INTO self.grid_size and only  *)
(* then range-checked.                                                     *)
(***************************************************************************)
InRange(n) == MinGridSize <= n /\ n <= MaxGridSize

RECURSIVE ShowFrom(_, _, _, _)
ShowFrom(k, canvases, cells, size) ==
    IF k > Len(Views) THEN [raised |-> FALSE, canvases |-> canvases]
    ELSE LET r == ShowView(canvases[Views[k]], cells[Views[k]], size)
             shown == [canvases EXCEPT ![Views[k]] = r.canvas]
         IN  IF r.raised THEN [raised |-> TRUE, canvases |-> shown]
             ELSE ShowFrom(k + 1, shown, cells, size)

GenerateGrid(text) ==
    /\ pc = "idle"
    /\ LET parsed == ParseInt(text)
       IN  IF ~parsed.ok
           THEN UNCHANGED <<grid_size, grid_cells, grid_canvases>>
           ELSE IF ~InRange(parsed.value)
           THEN /\ grid_size' = parsed.value
                /\ UNCHANGED <<grid_cells, grid_canvases>>
           ELSE /\ grid_size' = parsed.value
                /\ grid_cells' = [v \in ViewSet |-> FalseGrid(parsed.value)]
                /\ grid_canvases' =
                      ShowFrom(1, grid_canvases, [v \in ViewSet |-> FalseGrid(parsed.value)],
                               parsed.value).canvases
    /\ UNCHANGED <<project_modified, current_project_path, project_directory, project_name,
                   preferences, recent_files, exported_stls, ctlVars>>
    /\ HistoryFollows

(***************************************************************************)
(* new_project                                                             *)
(***************************************************************************)
NewProject(confirm) ==
    /\ pc = "idle"
    /\ IF project_modified /\ ~confirm
       THEN UNCHANGED <<grid_size, grid_cells, current_project_path, project_directory,
                        project_name, project_modified, exported_stls>>
       ELSE /\ grid_cells' = EmptyGrids
            /\ grid_size' = 0
            /\ current_project_path' = NoneVal
            /\ project_directory' = NoneVal
            /\ project_name' = NoneVal
            /\ project_modified' = FALSE
            /\ exported_stls' = [v \in ViewSet |-> NoneVal]
    /\ UNCHANGED <<grid_canvases, preferences, recent_files, ctlVars>>
    /\ HistoryFollows

(***************************************************************************)
(* load_project: the file's grid_size and grid_cells are taken as they     *)
(* are; an exception of show_view is caught after the fields are set.      *)
(***************************************************************************)
\* show_view raises inside load_project's try, before add_to_recent_files
LoadRaises(file) == ShowFrom(1, grid_canvases, file.grid_cells, file.grid_size).raised

LoadProject(file) ==
    /\ pc = "idle"
    /\ grid_size' = file.grid_size
    /\ grid_cells' = file.grid_cells
    /\ current_project_path' = file.path
    /\ project_name' = ProjectName(file.path)
    /\ project_directory' = DirName(file.path)
    /\ project_modified' = FALSE
    /\ grid_canvases' = ShowFrom(1, grid_canvases, file.grid_cells, file.grid_size).canvases
    /\ recent_files' = IF LoadRaises(file) THEN recent_files
                       ELSE AddToRecentFiles(recent_files, file.path,
                                             preferences.max_recent_files)
    /\ UNCHANGED <<preferences, exported_stls, ctlVars>>
    /\ HistoryFollows

(***************************************************************************)
(* toggle_cell, bound by show_view to the unmarked cells of a live canvas: *)
(* the new value follows the canvas fill; an IndexError of the grid leaves *)
(* the fill changed and project_modified as it was.                        *)
(***************************************************************************)
ToggleCell(view, row, col) ==
    /\ pc = "idle"
    /\ grid_canvases[view].state = "live"
    /\ <<row, col>> \in DOMAIN grid_canvases[view].fill
    /\ LET white == grid_canvases[view].fill[<<row, col>>] = "white"
       IN  /\ grid_canvases' = [grid_canvases EXCEPT
                  ![view].fill[<<row, col>>] = IF white THEN "black" ELSE "white"]
           /\ IF Missing(grid_cells[view], row, col)
              THEN UNCHANGED <<grid_cells, project_modified>>
              ELSE /\ grid_cells' = [grid_cells EXCEPT ![view][row + 1][col + 1] = white]
                   /\ project_modified' = TRUE
    /\ UNCHANGED <<grid_size, current_project_path, project_directory, project_name,
                   preferences, recent_files, exported_stls, ctlVars>>
    /\ HistoryFollows

(***************************************************************************)
(* clear_grid and invert_selection: per view that has a canvas, the loops  *)
(* over range(grid_size) x range(grid_size), then show_view; an exception  *)
(* ends the handler where it stands.                                       *)
(***************************************************************************)
ApplyEdit(kind, cells, size) ==
    IF kind = "clear" THEN ApplyClear(cells, size) ELSE ApplyInvert(cells, size)

RECURSIVE EditFrom(_, _, _, _, _)
EditFrom(k, kind, cells, canvases, size) ==
    IF k > Len(Views) THEN [grid_cells |-> cells, canvases |-> canvases]
    ELSE LET view == Views[k]
         IN  IF canvases[view].state = "none"
             THEN EditFrom(k + 1, kind, cells, canvases, size)
             ELSE LET edited == [cells EXCEPT ![view] = ApplyEdit(kind, cells[view], size)]
                      raised == FirstMissing(cells[view], size) < size * size
                      r == ShowView(canvases[view], edited[view], size)
                      shown == [canvases EXCEPT ![view] = r.canvas]
                  IN  IF raised /\ size > 0 THEN [grid_cells |-> edited, canvases |-> canvases]
                      ELSE IF r.raised THEN [grid_cells |-> edited, canvases |-> shown]
                      ELSE EditFrom(k + 1, kind, edited, shown, size)

EditGrid(kind) ==
    /\ pc = "idle"
    /\ LET r == EditFrom(1, kind, grid_cells, grid_canvases, grid_size)
       IN  /\ grid_cells' = r.grid_cells
           /\ grid_canvases' = r.canvases
    /\ UNCHANGED <<grid_size, project_modified, current_project_path, project_directory,
                   project_name, preferences, recent_files, exported_stls, ctlVars>>
    /\ HistoryFollows

ClearGrid == EditGrid("clear")

InvertSelection == EditGrid("invert")

(***************************************************************************)
(* save_project and save_project_as, down to save_project_to_file. The     *)
(* dialog's answer, whether the chosen file exists and whether the write   *)
(* succeeds are inputs.                                                    *)
(***************************************************************************)
SaveProjectToFile(file_path, write_ok) ==
    IF write_ok
    THEN /\ current_project_path' = file_path
         /\ project_modified' = FALSE
         /\ recent_files' = AddToRecentFiles(recent_files, file_path,
                                             preferences.max_recent_files)
    ELSE UNCHANGED <<current_project_path, project_modified, recent_files>>

SaveProject(path, exists, write_ok) ==
    /\ pc = "idle"
    /\ project_name' = ProjectName(path)
    /\ IF exists
       THEN /\ project_directory' = DirName(path)
            /\ SaveProjectToFile(path, write_ok)
       ELSE /\ project_directory' = Append(DirName(path), ProjectName(path))
            /\ SaveProjectToFile(Append(DirName(path), ProjectName(path))
                                    \o <<ProjectName(path), ".grid">>, write_ok)
    /\ UNCHANGED <<grid_size, grid_cells, grid_canvases, preferences, exported_stls,
                   ctlVars>>
    /\ HistoryFollows

SaveProjectAs(path, write_ok) ==
    /\ pc = "idle"
    /\ project_name' = ProjectName(path)
    /\ SaveProjectToFile(path, write_ok)
    /\ UNCHANGED <<grid_size, grid_cells, grid_canvases, project_directory, preferences,
                   exported_stls, ctlVars>>
    /\ HistoryFollows

(***************************************************************************)
(* PreferencesDialog.save_preferences: the only checks are that cell size, *)
(* border thickness and max recent files are positive and that a given     *)
(* OpenSCAD path is a file.                                                *)
(***************************************************************************)
PreferencesAccepted(entry) ==
    /\ ~(entry.cell_size <= 0 \/ entry.border_thickness <= 0 \/ entry.max_recent_files <= 0)
    /\ ~(entry.openscad_binary # NoneVal /\ ~entry.binary_is_file)

SavePreferences(entry) ==
    /\ pc = "idle"
    /\ IF PreferencesAccepted(entry)
       THEN preferences' = [preferences EXCEPT
                !.cell_size = entry.cell_size,
                !.border_thickness = entry.border_thickness,
                !.pocket_depth = entry.pocket_depth,
                !.max_recent_files = entry.max_recent_files,
                !.openscad_binary = entry.openscad_binary]
       ELSE UNCHANGED preferences
    /\ UNCHANGED <<editorVars, recent_files, exported_stls, ctlVars>>
    /\ HistoryFollows

(***************************************************************************)
(* The Recent Projects menu. update_recent_files_menu gives the menu one   *)
(* command per entry of the list, and "Clear Recent" when the list is not  *)
(* empty. Whether the chosen path still exists, the dialog's answer and    *)
(* what the file holds by now are inputs.                                  *)
(***************************************************************************)
ClearRecentFiles ==
    /\ pc = "idle"
    /\ recent_files # <<>>
    /\ recent_files' = <<>>
    /\ UNCHANGED <<editorVars, preferences, exported_stls, ctlVars>>
    /\ HistoryFollows

OpenRecentProject(path, exists, confirm, content) ==
    /\ pc = "idle"
    /\ InList(recent_files, path)
    /\ IF ~exists
       THEN /\ recent_files' = ListRemove(recent_files, path)
            /\ UNCHANGED <<editorVars, preferences, exported_stls, ctlVars>>
            /\ HistoryFollows
       ELSE IF project_modified /\ ~confirm
       THEN UNCHANGED vars
       ELSE LoadProject([content EXCEPT !.path = path])

(***************************************************************************)
(* Inputs of the model.                                                    *)
(***************************************************************************)
EnteredTexts ==
    {Numeral(n) : n \in (MinGridSize - 1)..MaxEnteredSize}
        \cup {Numeral(MaxGridSize + 1), <<"a">>}

SavePaths == {<<"projects", "cube", ".grid">>}

\* the cells the model clicks: <<view, row, col>>
ToggleCells == {<<"Top", 2, 2>>, <<"Front", 2, 3>>}

(***************************************************************************)
(* The editor: the operations of the grid editor on a new or loaded        *)
(* project.                                                                *)
(***************************************************************************)
Next ==
    \/ \E text \in EnteredTexts : GenerateGrid(text)
    \/ \E confirm \in BOOLEAN : NewProject(confirm)
    \/ \E file \in ProjectFiles : LoadProject(file)
    \/ \E cell \in ToggleCells : ToggleCell(cell[1], cell[2], cell[3])
    \/ ClearGrid
    \/ InvertSelection

Spec == Init /\ [][Next]_vars

(***************************************************************************)
(* The project menu: the operations that open and save projects and keep   *)
(* the list of recent files, the preferences dialog that sets the list's   *)
(* length, and a click that leaves the project modified.                   *)
(***************************************************************************)
\* every path the model's projects are loaded from or saved to
RecentPaths ==
    {file.path : file \in ProjectFiles}
        \cup SavePaths
        \cup {Append(DirName(path), ProjectName(path)) \o <<ProjectName(path), ".grid">> :
                  path \in SavePaths}

ProjectLoads == ProjectFiles \cup ValidFiles \cup {ZeroFile}

\* what a file of the recent menu may hold when it is opened
RecentContents == {MismatchFile, ZeroFile}

DialogMaxRecents == {0, 2}

ProjectDialogEntries ==
    {[cell_size |-> DefaultCellSize, border_thickness |-> DefaultBorderThickness,
      pocket_depth |-> DefaultPocketDepth, max_recent_files |-> m,
      openscad_binary |-> NoneVal, binary_is_file |-> FALSE] : m \in DialogMaxRecents}

NextProject ==
    \/ \E confirm \in BOOLEAN : NewProject(confirm)
    \/ \E file \in ProjectLoads : LoadProject(file)
    \/ ToggleCell("Top", 2, 2)
    \/ \E path \in SavePaths, exists \in BOOLEAN : SaveProject(path, exists, TRUE)
    \/ \E path \in SavePaths, write_ok \in BOOLEAN : SaveProjectAs(path, write_ok)
    \/ \E entry \in ProjectDialogEntries : SavePreferences(entry)
    \/ ClearRecentFiles
    \/ \E path \in RecentPaths, exists \in BOOLEAN, confirm \in BOOLEAN,
          content \in RecentContents : OpenRecentProject(path, exists, confirm, content)

SpecProject == Init /\ [][NextProject]_vars

(***************************************************************************)
(* create_stl: the cell classification, the 24 vertices of a cell and the  *)
(* faces it emits, as local vertex numbers 0..23, in the order of the code.*)
(***************************************************************************)
\* variant: the two-cell margin that show_view uses for its dead cells
TwoCellMargin(row, col, size) ==
    row < BorderMargin \/ col < BorderMargin
        \/ row >= size - BorderMargin \/ col >= size - BorderMargin

\* variant: only the near edges of the grid are taken for the frame
NearEdgesOnly(row, col, size) == row = 0 \/ col = 0

IsEdgeCell(row, col, size) ==
    row = 0 \/ col = 0 \/ row = size - 1 \/ col = size - 1

CellType(value, row, col, size) ==
    IF IsEdgeCell(row, col, size) THEN "border"
    ELSE IF value THEN "black" ELSE "white"

ExtrusionHeight(size, prefs) == size * prefs.cell_size

\* variant: the pocket floor at the full pocket depth
PocketFloorAtDepth(size, prefs) == prefs.cell_size * prefs.pocket_depth

PocketFloorZ(size, prefs) == prefs.cell_size * prefs.pocket_depth - prefs.border_thickness

PocketCeilingZ(size, prefs) ==
    ExtrusionHeight(size, prefs) - prefs.cell_size * prefs.pocket_depth
        + prefs.border_thickness

CellVertices(row, col, size, prefs) ==
    LET x_start_outer == col * prefs.cell_size
        y_start_outer == row * prefs.cell_size
        x_end_outer == x_start_outer + prefs.cell_size
        y_end_outer == y_start_outer + prefs.cell_size
        x_start_inner == x_start_outer + prefs.border_thickness
        y_start_inner == y_start_outer + prefs.border_thickness
        x_end_inner == x_end_outer - prefs.border_thickness
        y_end_inner == y_end_outer - prefs.border_thickness
        top == ExtrusionHeight(size, prefs)
        floor == PocketFloorZ(size, prefs)
        ceiling == PocketCeilingZ(size, prefs)
    IN  << <<x_start_outer, y_start_outer, 0>>, <<x_end_outer, y_start_outer, 0>>,
           <<x_end_outer, y_end_outer, 0>>, <<x_start_outer, y_end_outer, 0>>,
           <<x_start_outer, y_start_outer, top>>, <<x_end_outer, y_start_outer, top>>,
           <<x_end_outer, y_end_outer, top>>, <<x_start_outer, y_end_outer, top>>,
           <<x_start_inner, y_start_inner, 0>>, <<x_end_inner, y_start_inner, 0>>,
           <<x_end_inner, y_end_inner, 0>>, <<x_start_inner, y_end_inner, 0>>,
           <<x_start_inner, y_start_inner, top>>, <<x_end_inner, y_start_inner, top>>,
           <<x_end_inner, y_end_inner, top>>, <<x_start_inner, y_end_inner, top>>,
           <<x_start_inner, y_start_inner, floor>>, <<x_end_inner, y_start_inner, floor>>,
           <<x_end_inner, y_end_inner, floor>>, <<x_start_inner, y_end_inner, floor>>,
           <<x_start_inner, y_start_inner, ceiling>>, <<x_end_inner, y_start_inner, ceiling>>,
           <<x_end_inner, y_end_inner, ceiling>>, <<x_start_inner, y_end_inner, ceiling>> >>

BorderCapFaces == << <<0, 1, 2>>, <<0, 2, 3>>, <<4, 5, 6>>, <<4, 6, 7>> >>

ShellBottomFaces ==
    << <<0, 1, 9>>, <<0, 9, 8>>, <<1, 2, 10>>, <<1, 10, 9>>,
       <<2, 3, 11>>, <<2, 11, 10>>, <<3, 0, 8>>, <<3, 8, 11>> >>

\* the top ring repeats the bottom ring four vertices up
ShellFaces ==
    ShellBottomFaces \o [i \in 1..Len(ShellBottomFaces) |->
        [j \in 1..3 |-> 4 + ShellBottomFaces[i][j]]]

NorthFaces == << <<0, 1, 5>>, <<0, 5, 4>> >>

SouthFaces == << <<2, 3, 7>>, <<2, 7, 6>> >>

WestFaces == << <<3, 0, 4>>, <<3, 4, 7>> >>

EastFaces == << <<1, 2, 6>>, <<1, 6, 5>> >>

\* variant: only the bottom pocket is emitted
BottomPocketFaces ==
    << <<8, 17, 9>>, <<8, 16, 17>>, <<9, 18, 10>>, <<9, 17, 18>>,
       <<10, 19, 11>>, <<10, 18, 19>>, <<11, 16, 8>>, <<11, 19, 16>>,
       <<16, 17, 18>>, <<16, 18, 19>> >>

PocketFaces ==
    << <<8, 17, 9>>, <<8, 16, 17>>, <<9, 18, 10>>, <<9, 17, 18>>,
       <<10, 19, 11>>, <<10, 18, 19>>, <<11, 16, 8>>, <<11, 19, 16>>,
       <<16, 17, 18>>, <<16, 18, 19>>,
       <<20, 13, 21>>, <<20, 12, 13>>, <<21, 14, 22>>, <<21, 13, 14>>,
       <<22, 15, 23>>, <<22, 14, 15>>, <<23, 12, 20>>, <<23, 15, 12>>,
       <<20, 21, 22>>, <<20, 22, 23>> >>

InnerFaces ==
    << <<8, 13, 9>>, <<8, 12, 13>>, <<9, 14, 10>>, <<9, 13, 14>>,
       <<10, 15, 11>>, <<10, 14, 15>>, <<11, 12, 8>>, <<11, 15, 12>> >>

\* variant: every cell emits its four outer walls
CellFacesAllWalls(cell_type, row, col, size) ==
    (IF cell_type = "border" THEN BorderCapFaces ELSE ShellFaces)
        \o NorthFaces \o SouthFaces \o WestFaces \o EastFaces
        \o (IF cell_type = "white" THEN PocketFaces
            ELSE IF cell_type = "black" THEN InnerFaces ELSE <<>>)

CellFaces(cell_type, row, col, size) ==
    (IF cell_type = "border" THEN BorderCapFaces ELSE ShellFaces)
        \o (IF row = 0 THEN NorthFaces ELSE <<>>)
        \o (IF row = size - 1 THEN SouthFaces ELSE <<>>)
        \o (IF col = 0 THEN WestFaces ELSE <<>>)
        \o (IF col = size - 1 THEN EastFaces ELSE <<>>)
        \o (IF cell_type = "white" THEN PocketFaces
            ELSE IF cell_type = "black" THEN InnerFaces ELSE <<>>)

\* variant: start_idx read after the cell's vertices were appended
StartIdxAfterAppend(buffer) == Len(buffer) + VerticesPerCell

\* start_idx = len(vertices), taken before the cell's vertices are appended
StartIdx(buffer) == Len(buffer)

OffsetFaces(local, start_idx) ==
    [i \in 1..Len(local) |-> [j \in 1..3 |-> start_idx + local[i][j]]]

\* variant: the buffers of the previous call are kept
KeptList(previous) == previous

\* vertices = [] and faces = [] at the top of every call
FreshList(previous) == <<>>

(***************************************************************************)
(* The orientation transform of create_stl. mesh.rotate (numpy-stl) turns  *)
(* every vector v into v.dot(R), R being the rotation matrix of the axis   *)
(* and angle; the angles of the code are quarter turns, whose matrices are *)
(* integer. np.mean divides by the number of points: a mean is kept as the *)
(* sum of the points together with their number (mesh.scale); the         *)
(* translation, a difference of two means, is kept as the difference of    *)
(* the two sums, so that a point of the written mesh is                    *)
(* rotated[i] + translation / scale and all numbers stay integers.         *)
(***************************************************************************)
Cos4(q) == <<1, 0, -1, 0>>[(q % 4) + 1]

Sin4(q) == <<0, 1, 0, -1>>[(q % 4) + 1]

RotationMatrix(axis, q) ==
    LET cross == << <<0, 0 - axis[3], axis[2]>>,
                    <<axis[3], 0, 0 - axis[1]>>,
                    <<0 - axis[2], axis[1], 0>> >>
    IN  [i \in 1..3 |-> [j \in 1..3 |->
            (IF i = j THEN Cos4(q) ELSE 0)
                + (1 - Cos4(q)) * axis[i] * axis[j]
                + Sin4(q) * cross[i][j]]]

MeshRotate(axis, q, v) ==
    LET R == RotationMatrix(axis, q)
    IN  [j \in 1..3 |-> v[1] * R[1][j] + v[2] * R[2][j] + v[3] * R[3][j]]

AxisX == <<1, 0, 0>>

AxisY == <<0, 1, 0>>

\* variant: the two rotations of each view in the other order
ViewRotateOtherOrder(view, v) ==
    IF view = "Side" THEN MeshRotate(AxisY, 1, MeshRotate(AxisX, 1, v))
    ELSE IF view = "Front" THEN MeshRotate(AxisX, -1, MeshRotate(AxisY, 2, v))
    ELSE v

ViewRotate(view, v) ==
    IF view = "Side" THEN MeshRotate(AxisX, 1, MeshRotate(AxisY, 1, v))
    ELSE IF view = "Front" THEN MeshRotate(AxisY, 2, MeshRotate(AxisX, -1, v))
    ELSE v

PointSum(a, b) == <<a[1] + b[1], a[2] + b[2], a[3] + b[3]>>

RECURSIVE SumRange(_, _, _)
SumRange(points, lo, hi) ==
    IF lo > hi THEN <<0, 0, 0>>
    ELSE IF lo = hi THEN points[lo]
    ELSE LET mid == (lo + hi) \div 2
         IN  PointSum(SumRange(points, lo, mid), SumRange(points, mid + 1, hi))

SumPoints(points) == SumRange(points, 1, Len(points))

\* variant: the translation with its sign reversed
ReversedTranslation(original_center, new_center) ==
    <<new_center[1] - original_center[1], new_center[2] - original_center[2],
      new_center[3] - original_center[3]>>

\* translation = original_center - new_center
Translation(original_center, new_center) ==
    <<original_center[1] - new_center[1], original_center[2] - new_center[2],
      original_center[3] - new_center[3]>>

\* grid_mesh.vectors[i][j] = vertices[f[j]]
MeshVectors(vertex_list, face_list) ==
    [i \in 1..(3 * Len(face_list)) |->
        vertex_list[face_list[((i - 1) \div 3) + 1][((i - 1) % 3) + 1] + 1]]

TransformedMesh(view, vertex_list, face_list) ==
    LET points == MeshVectors(vertex_list, face_list)
        n == Len(points)
        original_center == SumPoints(points)
        rotated == [i \in 1..n |-> ViewRotate(view, points[i])]
        new_center == SumPoints(rotated)
        translation == Translation(original_center, new_center)
    IN  [scale |-> n,
         original_center |-> original_center,
         rotated |-> rotated,
         translation |-> translation]

\* grid_mesh.vectors += translation: point i of the written mesh, scale-fold
WrittenPoint(written, i) ==
    [k \in 1..3 |-> written.scale * written.rotated[i][k] + written.translation[k]]

(***************************************************************************)
(* export_grid_stl and create_stl. The handler runs to its end before the  *)
(* next event is taken; its loop over the views and create_stl's loop over *)
(* the cells are stepped through one iteration at a time.                  *)
(*   pc = "cells":   create_stl is in its cell loop, cell_pos cells done   *)
(*   pc = "written": create_stl has saved the mesh of the view             *)
(***************************************************************************)
ExportViews == <<"Front", "Side", "Top">>

CurrentView == ExportViews[export_view]

StlPath(view) == Append(project_directory, view) \o <<".stl">>

CellCount(size) == IF size > 0 THEN size * size ELSE 0

\* scad keeps the CSG description written since the last mesh export began
ExportGridStl ==
    /\ pc = "idle"
    /\ IF current_project_path = NoneVal \/ project_directory = NoneVal
       THEN \* "Please save the project first", or os.path.join(None, ...) raises
            UNCHANGED <<ctlVars, listVars>>
       ELSE /\ pc' = "cells"
            /\ export_view' = 1
            /\ cell_pos' = 0
            /\ vertices' = FreshList(vertices)
            /\ faces' = FreshList(faces)
            /\ face_cell' = <<>>
            /\ printed' = <<>>
            /\ stl_mesh' = NoMesh
    /\ scad' = NoScad
    /\ UNCHANGED <<editorVars, preferences, recent_files, exported_stls, built>>

\* the handler's next view, or its end
NextView ==
    IF export_view < Len(ExportViews)
    THEN /\ pc' = "cells"
         /\ export_view' = export_view + 1
         /\ cell_pos' = 0
         /\ vertices' = FreshList(vertices)
         /\ faces' = FreshList(faces)
         /\ face_cell' = <<>>
         /\ printed' = <<>>
         /\ stl_mesh' = NoMesh
    ELSE /\ pc' = "idle"
         /\ export_view' = 0
         /\ cell_pos' = 0
         /\ UNCHANGED listVars

\* variant: the loop writes the frame back into the grid, a cell it takes
\* for the frame is stored as False
CreateStlCellStoringFrame ==
    /\ pc = "cells"
    /\ cell_pos < CellCount(grid_size)
    /\ ~Missing(grid_cells[CurrentView], cell_pos \div grid_size, cell_pos % grid_size)
    /\ LET row == cell_pos \div grid_size
           col == cell_pos % grid_size
           cells == grid_cells[CurrentView]
           cell_type == CellType(cells[row + 1][col + 1], row, col, grid_size)
           emitted == OffsetFaces(CellFaces(cell_type, row, col, grid_size), StartIdx(vertices))
       IN  /\ vertices' = vertices \o CellVertices(row, col, grid_size, preferences)
           /\ faces' = faces \o emitted
           /\ face_cell' = face_cell \o [i \in 1..Len(emitted) |-> cell_pos]
           /\ printed' = Append(printed, [row |-> row, col |-> col, type |-> cell_type])
           /\ cell_pos' = cell_pos + 1
           /\ grid_cells' = IF cell_type = "border"
                            THEN [grid_cells EXCEPT ![CurrentView][row + 1][col + 1] = FALSE]
                            ELSE grid_cells
    /\ UNCHANGED <<grid_size, grid_canvases, project_modified, current_project_path,
                   project_directory, project_name, pc, export_view, stl_mesh,
                   preferences, recent_files, exported_stls, built, scad>>

\* one iteration of "for row ... for col ...": an IndexError of the grid is
\* caught by export_grid_stl, which goes on with the next view
CreateStlCell ==
    /\ pc = "cells"
    /\ cell_pos < CellCount(grid_size)
    /\ LET row == cell_pos \div grid_size
           col == cell_pos % grid_size
           cells == grid_cells[CurrentView]
       IN  IF Missing(cells, row, col)
           THEN NextView
           ELSE LET cell_type == CellType(cells[row + 1][col + 1], row, col, grid_size)
                    start_idx == StartIdx(vertices)
                    emitted == OffsetFaces(CellFaces(cell_type, row, col, grid_size), start_idx)
                IN  /\ vertices' = vertices \o CellVertices(row, col, grid_size, preferences)
                    /\ faces' = faces \o emitted
                    /\ face_cell' = face_cell \o [i \in 1..Len(emitted) |-> cell_pos]
                    /\ printed' = Append(printed, [row |-> row, col |-> col, type |-> cell_type])
                    /\ cell_pos' = cell_pos + 1
                    /\ UNCHANGED <<pc, export_view, stl_mesh>>
    /\ UNCHANGED <<editorVars, preferences, recent_files, exported_stls, built, scad>>

\* after the loop: the mesh, its rotation and translation, and the save
CreateStlFinish ==
    /\ pc = "cells"
    /\ cell_pos = CellCount(grid_size)
    /\ stl_mesh' = TransformedMesh(CurrentView, vertices, faces)
    /\ exported_stls' = [exported_stls EXCEPT ![CurrentView] = StlPath(CurrentView)]
    /\ pc' = "written"
    /\ UNCHANGED <<editorVars, preferences, recent_files, export_view, cell_pos, vertices, faces,
                   face_cell, printed, built, scad>>

\* back in export_grid_stl: the success message, then the next view
ExportNext ==
    /\ pc = "written"
    /\ built' = [built EXCEPT ![CurrentView] =
                    [done |-> TRUE, vertices |-> vertices, faces |-> faces]]
    /\ NextView
    /\ UNCHANGED <<editorVars, preferences, recent_files, exported_stls, scad>>

(***************************************************************************)
(* export_openscad and generate_openscad_file: the CSG tree. A primitive   *)
(* is kept with the cell it was made for and its translated cubes.         *)
(***************************************************************************)
InsetCube(row, col, z, height, prefs) ==
    [translate |-> <<prefs.cell_size * row + prefs.border_thickness,
                     prefs.cell_size * col + prefs.border_thickness, z>>,
     cube |-> <<prefs.cell_size - 2 * prefs.border_thickness,
                prefs.cell_size - 2 * prefs.border_thickness, height>>]

\* variant: the upper cube of a pocket starts at the top face
PocketAboveTop(row, col, number_of_cells, prefs) ==
    [kind |-> "pocket", row |-> row, col |-> col,
     boxes |-> <<InsetCube(row, col, 0, prefs.cell_size * prefs.pocket_depth, prefs),
                 InsetCube(row, col, prefs.cell_size * number_of_cells,
                           prefs.cell_size * prefs.pocket_depth, prefs)>>]

Pocket(row, col, number_of_cells, prefs) ==
    [kind |-> "pocket", row |-> row, col |-> col,
     boxes |-> <<InsetCube(row, col, 0, prefs.cell_size * prefs.pocket_depth, prefs),
                 InsetCube(row, col,
                           prefs.cell_size * number_of_cells
                               - prefs.cell_size * prefs.pocket_depth,
                           prefs.cell_size * prefs.pocket_depth, prefs)>>]

ThroughHole(row, col, number_of_cells, prefs) ==
    [kind |-> "through_hole", row |-> row, col |-> col,
     boxes |-> <<InsetCube(row, col, 0, prefs.cell_size * number_of_cells, prefs)>>]

\* range(1, number_of_cells - 1)
CsgRange(number_of_cells) == 1..(number_of_cells - 2)

\* variant: the two primitives exchanged
ExchangedPrimitive(value, row, col, number_of_cells, prefs) ==
    IF value THEN Pocket(row, col, number_of_cells, prefs)
    ELSE ThroughHole(row, col, number_of_cells, prefs)

CsgPrimitive(value, row, col, number_of_cells, prefs) ==
    IF value THEN ThroughHole(row, col, number_of_cells, prefs)
    ELSE Pocket(row, col, number_of_cells, prefs)

\* cube_side(view): the primitives in the order of the two loops
CubeSide(cells, number_of_cells, prefs) ==
    LET inner == number_of_cells - 2
    IN  IF inner <= 0 THEN <<>>
        ELSE [k \in 1..(inner * inner) |->
                 LET i == ((k - 1) \div inner) + 1
                     j == ((k - 1) % inner) + 1
                 IN  CsgPrimitive(cells[i + 1][j + 1], i, j, number_of_cells, prefs)]

CubeSideRaises(cells, number_of_cells) ==
    \E i \in CsgRange(number_of_cells), j \in CsgRange(number_of_cells) : Missing(cells, i, j)

\* main_shape: the cube and the views' holes in the order they are subtracted
CsgOrder == <<"Top", "Front", "Side">>

\* the nodes of the tree: cube(s), a - b, translate(v)(c), rotate(a)(c), and
\* cube_side(view), the union whose members are kept in holes[view]
ScadCube(size) == [op |-> "cube", size |-> size]

ScadDifference(left, right) == [op |-> "difference", left |-> left, right |-> right]

ScadTranslate(v, child) == [op |-> "translate", v |-> v, child |-> child]

ScadRotate(a, child) == [op |-> "rotate", a |-> a, child |-> child]

ScadHoles(view) == [op |-> "union", view |-> view]

\* variant: the Side holes are subtracted before the Front holes
MainShapeSideFirst(side) ==
    ScadDifference(
        ScadTranslate(<<0, 0, side>>, ScadRotate(<<0, 90, 0>>,
            ScadDifference(
                ScadTranslate(<<0, side, 0>>, ScadRotate(<<90, 0, 0>>,
                    ScadDifference(ScadCube(side), ScadHoles("Top")))),
                ScadHoles("Side")))),
        ScadHoles("Front"))

\* main_shape, side being cell_size * number_of_cells
MainShape(side) ==
    ScadDifference(
        ScadTranslate(<<0, 0, side>>, ScadRotate(<<0, 90, 0>>,
            ScadDifference(
                ScadTranslate(<<0, side, 0>>, ScadRotate(<<90, 0, 0>>,
                    ScadDifference(ScadCube(side), ScadHoles("Top")))),
                ScadHoles("Front")))),
        ScadHoles("Side"))

GenerateOpenscadFile ==
    [written |-> TRUE,
     side |-> preferences.cell_size * grid_size,
     holes |-> [v \in ViewSet |-> CubeSide(grid_cells[v], grid_size, preferences)],
     order |-> CsgOrder,
     tree |-> MainShape(preferences.cell_size * grid_size)]

ExportOpenscad ==
    /\ pc = "idle"
    /\ IF \/ preferences.openscad_binary = NoneVal
          \/ current_project_path = NoneVal
          \/ project_directory = NoneVal
          \/ \E v \in ViewSet : CubeSideRaises(grid_cells[v], grid_size)
       THEN UNCHANGED scad
       ELSE scad' = GenerateOpenscadFile
    /\ UNCHANGED <<editorVars, preferences, recent_files, exported_stls, ctlVars, listVars, built>>

(***************************************************************************)
(* The exports: the editor operations that set up a grid and the           *)
(* preferences, then the two export handlers.                              *)
(***************************************************************************)
MeshTexts == {Numeral(n) : n \in MinGridSize..MaxEnteredSize}

OpenscadPath == <<"usr", "bin", "openscad", "">>

DialogCellSizes == {0, DefaultCellSize}

DialogPocketDepths == {DefaultPocketDepth, 5}

DialogEntries ==
    {[cell_size |-> c, border_thickness |-> DefaultBorderThickness, pocket_depth |-> d,
      max_recent_files |-> DefaultMaxRecentFiles, openscad_binary |-> OpenscadPath,
      binary_is_file |-> TRUE] : c \in DialogCellSizes, d \in DialogPocketDepths}

NextMesh ==
    \/ \E text \in MeshTexts : GenerateGrid(text)
    \/ \E file \in GoodFiles \cup ValidFiles : LoadProject(file)
    \/ \E entry \in DialogEntries : SavePreferences(entry)
    \/ ExportGridStl
    \/ CreateStlCell
    \/ CreateStlFinish
    \/ ExportNext
    \/ ExportOpenscad

\* the program started with a preferences.json that names the OpenSCAD binary
InitMesh ==
    /\ grid_size = 0
    /\ grid_cells = EmptyGrids
    /\ grid_canvases = [v \in ViewSet |-> NoCanvas]
    /\ project_modified = FALSE
    /\ current_project_path = NoneVal
    /\ project_directory = NoneVal
    /\ project_name = NoneVal
    /\ preferences = [DefaultPreferences EXCEPT !.openscad_binary = OpenscadPath]
    /\ recent_files = <<>>
    /\ exported_stls = [v \in ViewSet |-> NoneVal]
    /\ pc = "idle"
    /\ export_view = 0
    /\ cell_pos = 0
    /\ vertices = <<>>
    /\ faces = <<>>
    /\ face_cell = <<>>
    /\ printed = <<>>
    /\ stl_mesh = NoMesh
    /\ built = NoBuilds
    /\ scad = NoScad

SpecMesh == InitMesh /\ [][NextMesh]_vars

(***************************************************************************)
(* What the claims speak of.                                               *)
(***************************************************************************)
Building == pc \in {"cells", "written"}

\* the local vertex numbers of face i of the lists, counted from the block of
\* the cell that emitted it
LocalFace(i) == [j \in 1..3 |-> faces[i][j] - VerticesPerCell * face_cell[i]]

\* the cavity a cell's faces describe, read off the local numbers of the
\* faces in its block of 24 vertices: a pocket pair has a floor (16..19) and
\* a ceiling (20..23); a through-hole has walls from the inner bottom loop
\* (8..11) to the inner top loop (12..15)
BlockOf(face) == face[1] \div VerticesPerCell

LocalsOf(face) == {face[j] - VerticesPerCell * BlockOf(face) : j \in 1..3}

FloorCells(face_list) ==
    {BlockOf(face_list[i]) : i \in {k \in 1..Len(face_list) : LocalsOf(face_list[k]) \subseteq 16..19}}

CeilingCells(face_list) ==
    {BlockOf(face_list[i]) : i \in {k \in 1..Len(face_list) : LocalsOf(face_list[k]) \subseteq 20..23}}

TubeCells(face_list) ==
    {BlockOf(face_list[i]) : i \in {k \in 1..Len(face_list) :
        /\ LocalsOf(face_list[k]) \subseteq 8..15
        /\ LocalsOf(face_list[k]) \cap (8..11) # {}
        /\ LocalsOf(face_list[k]) \cap (12..15) # {}}}

MeshCavities(face_list, size) ==
    LET floors == FloorCells(face_list)
        ceilings == CeilingCells(face_list)
        tubes == TubeCells(face_list)
    IN  [pos \in 0..(size * size - 1) |->
            IF pos \in tubes /\ pos \notin floors \cup ceilings THEN "through"
            ELSE IF pos \in floors \cap ceilings /\ pos \notin tubes THEN "pockets"
            ELSE IF pos \in floors \cup ceilings \cup tubes THEN "mixed"
            ELSE "none"]

CsgCavities(holes, size) ==
    [pos \in 0..(size * size - 1) |->
        LET here == {k \in 1..Len(holes) : holes[k].row * size + holes[k].col = pos}
        IN  IF here = {} THEN "none"
            ELSE IF \A k \in here : holes[k].kind = "through_hole" THEN "through"
            ELSE IF \A k \in here : holes[k].kind = "pocket" THEN "pockets"
            ELSE "mixed"]

\* Section 3 and 7 of the specification: the parameters and grids it calls valid
PocketNonDegenerate(size, prefs) ==
    /\ 0 < PocketFloorZ(size, prefs)
    /\ PocketFloorZ(size, prefs) < PocketCeilingZ(size, prefs)
    /\ PocketCeilingZ(size, prefs) < ExtrusionHeight(size, prefs)

IsSquare(cells, size) ==
    /\ Len(cells) = size
    /\ \A r \in 1..Len(cells) : Len(cells[r]) = size

ValidConfiguration ==
    /\ InRange(grid_size)
    /\ \A v \in ViewSet : IsSquare(grid_cells[v], grid_size)
    /\ preferences.cell_size > 0
    /\ preferences.border_thickness > 0
    /\ preferences.pocket_depth > 0
    /\ 2 * preferences.border_thickness < preferences.cell_size

ValidParameters ==
    /\ ValidConfiguration
    /\ 2 * preferences.pocket_depth * preferences.cell_size
           < grid_size * preferences.cell_size

\* the triangle edges of the lists, by the coordinates of their end points
EdgeFrom(i, j) == vertices[faces[i][j] + 1]

EdgeTo(i, j) == vertices[faces[i][(j % 3) + 1] + 1]

SameWay(i, j) ==
    {e \in (1..Len(faces)) \X (1..3) :
        EdgeFrom(e[1], e[2]) = EdgeFrom(i, j) /\ EdgeTo(e[1], e[2]) = EdgeTo(i, j)}

OtherWay(i, j) ==
    {e \in (1..Len(faces)) \X (1..3) :
        EdgeFrom(e[1], e[2]) = EdgeTo(i, j) /\ EdgeTo(e[1], e[2]) = EdgeFrom(i, j)}

\* a point on the bounding box of the assembled solid
OnEnvelope(p) ==
    LET side == ExtrusionHeight(grid_size, preferences)
    IN  \E k \in 1..3 : p[k] = 0 \/ p[k] = side

(***************************************************************************)
(* Properties of the mesh and CSG exports.                                 *)
(***************************************************************************)

\* C1: during a mesh build every processed cell was classified by the rule
\* "on row 0, column 0, row N-1 or column N-1: border; otherwise black when
\* its grid value is true and white when it is false", the cells being taken
\* in row-major order.
C1_Classification ==
    Building =>
        \A i \in 1..Len(printed) :
            LET p == printed[i]
                N == grid_size
                onEdge == p.row \in {0, N - 1} \/ p.col \in {0, N - 1}
                value == grid_cells[CurrentView][p.row + 1][p.col + 1]
            IN  /\ p.row * N + p.col = i - 1
                /\ onEdge => p.type = "border"
                /\ (~onEdge /\ value) => p.type = "black"
                /\ (~onEdge /\ ~value) => p.type = "white"

C1_AllThreeKinds ==
    /\ pc = "written"
    /\ InRange(grid_size)
    /\ CurrentView = "Top"
    /\ \A kind \in {"border", "black", "white"} :
           \E i \in 1..Len(printed) : printed[i].type = kind

\* C2: for valid parameters the written mesh is a closed surface with
\* consistent winding: every triangle edge is traversed exactly once in that
\* direction and exactly once in the opposite direction by another triangle,
\* except edges on the bounding box, which may belong to one triangle only.
C2_Watertight ==
    (pc = "written" /\ ValidParameters) =>
        \A i \in 1..Len(faces) : \A j \in 1..3 :
            \/ Cardinality(SameWay(i, j)) = 1 /\ Cardinality(OtherWay(i, j)) = 1
            \/ /\ OnEnvelope(EdgeFrom(i, j)) /\ OnEnvelope(EdgeTo(i, j))
               /\ Cardinality(SameWay(i, j)) = 1 /\ Cardinality(OtherWay(i, j)) = 0

\* C3: when a view has been exported by both pipelines from the same grid
\* and parameters, every cell (row, col) has the same kind of cavity in the
\* mesh and in the CSG description: none, a through-hole, or a pocket pair.
C3_SameCavities ==
    \A v \in ViewSet :
        (built[v].done /\ scad.written) =>
            MeshCavities(built[v].faces, grid_size) = CsgCavities(scad.holes[v], grid_size)

C3_BothKindsExported ==
    /\ built["Top"].done
    /\ scad.written
    /\ \E k \in 1..Len(scad.holes["Top"]) : scad.holes["Top"][k].kind = "through_hole"
    /\ \E k \in 1..Len(scad.holes["Top"]) : scad.holes["Top"][k].kind = "pocket"
    /\ TubeCells(built["Top"].faces) # {}
    /\ FloorCells(built["Top"].faces) # {}

\* C4: a cell on the outer ring of the grid, whatever boolean it holds, emits
\* no face that uses an inner-rectangle or pocket vertex (local 8..23) and
\* gets no primitive in the CSG description.
C4_BorderNoCavity ==
    /\ \A i \in 1..Len(faces) :
           LET row == face_cell[i] \div grid_size
               col == face_cell[i] % grid_size
           IN  (row \in {0, grid_size - 1} \/ col \in {0, grid_size - 1}) =>
                   \A j \in 1..3 : LocalFace(i)[j] \in 0..7
    /\ scad.written =>
           \A v \in ViewSet : \A k \in 1..Len(scad.holes[v]) :
               /\ scad.holes[v][k].row \in 1..(grid_size - 2)
               /\ scad.holes[v][k].col \in 1..(grid_size - 2)

C4_TrueBorderCellExported ==
    /\ pc = "idle"
    /\ scad.written
    /\ \E v \in ViewSet : scad.holes[v] # <<>>
    /\ \E i \in 1..Len(faces) :
           LET row == face_cell[i] \div grid_size
               col == face_cell[i] % grid_size
           IN  /\ row \in {0, grid_size - 1} \/ col \in {0, grid_size - 1}
               /\ grid_cells["Top"][row + 1][col + 1]
    /\ \E i \in 1..Len(faces) :
           LET row == face_cell[i] \div grid_size
               col == face_cell[i] % grid_size
           IN  /\ row \in {0, grid_size - 1} \/ col \in {0, grid_size - 1}
               /\ ~grid_cells["Top"][row + 1][col + 1]

\* C5: every face emitted for a cell indexes only into that cell's own block
\* of 24 vertices, which starts at 24 * (row * N + col), the length of the
\* vertex list before the cell's vertices were appended.
C5_OwnBlock ==
    /\ Len(vertices) = VerticesPerCell * Len(printed)
    /\ Len(face_cell) = Len(faces)
    /\ pc = "cells" => Len(printed) = cell_pos
    /\ \A i \in 1..Len(faces) :
           LET start_idx == VerticesPerCell * face_cell[i]
           IN  /\ face_cell[i] < Len(printed)
               /\ face_cell[i] = printed[face_cell[i] + 1].row * grid_size
                                     + printed[face_cell[i] + 1].col
               /\ \A j \in 1..3 :
                      /\ start_idx <= faces[i][j]
                      /\ faces[i][j] < start_idx + VerticesPerCell

C5_SeveralCellsEmitted ==
    /\ pc = "cells"
    /\ cell_pos > grid_size + 1
    /\ \E i \in 1..Len(faces) : face_cell[i] = cell_pos - 1

\* C6: building the mesh of a view a second time from the same grid and
\* parameters gives the same vertex sequence and the same face sequence as
\* the first time.
C6_Deterministic ==
    (pc = "written" /\ built[CurrentView].done) =>
        /\ vertices = built[CurrentView].vertices
        /\ faces = built[CurrentView].faces

C6_BuiltTwice ==
    /\ pc = "written"
    /\ built[CurrentView].done
    /\ Len(faces) > 0

\* C7: the centroid of the points of the written mesh (after rotation and
\* translation) equals the centroid the points had before the rotation, for
\* every view. With n points and the means kept as sums:
\* sum(rotated) + translation = sum(before), the n-fold centroids.
C7_CentroidPreserved ==
    (pc = "written" /\ stl_mesh.scale > 0) =>
        LET before == SumPoints(MeshVectors(vertices, faces))
            turned == SumPoints(stl_mesh.rotated)
        IN  /\ Len(stl_mesh.rotated) = stl_mesh.scale
            /\ \A k \in 1..3 : turned[k] + stl_mesh.translation[k] = before[k]

C7_RotatedViewWritten ==
    /\ pc = "written"
    /\ stl_mesh.scale > 0
    /\ CurrentView = "Side"
    /\ stl_mesh.translation # <<0, 0, 0>>
    /\ \E i \in 1..Len(stl_mesh.rotated) :
           stl_mesh.rotated[i] # MeshVectors(vertices, faces)[i]

\* C8: no cell geometry is generated for a configuration whose pockets are
\* degenerate: whenever cells have been emitted,
\* 0 < pocket floor < pocket ceiling < extrusion height.
C8_DegenerateRejected ==
    (Building /\ Len(vertices) > 0) => PocketNonDegenerate(grid_size, preferences)

\* C9: no per-cell geometry is generated and no mesh is written unless the
\* configuration is valid: grid size in 8..64, square grids of that size,
\* positive lengths, border thickness below half the cell size.
C9_ValidatedFirst ==
    (Building /\ (Len(vertices) > 0 \/ pc = "written")) => ValidConfiguration

(***************************************************************************)
(* Properties of the editor.                                               *)
(***************************************************************************)

\* C10: either no grid exists (grid_size 0, the three grids empty), or
\* 8 <= grid_size <= 64 and each of the three grids has exactly grid_size
\* rows of exactly grid_size entries; a rejected generate_grid leaves
\* grid_size and the grids as they were.
C10_GridShape ==
    \/ grid_size = 0 /\ \A v \in ViewSet : grid_cells[v] = <<>>
    \/ /\ InRange(grid_size)
       /\ \A v \in ViewSet : IsSquare(grid_cells[v], grid_size)

\* C10, its last part as a property of the steps: a generate_grid whose
\* input is not an integer of 8..64 changes neither grid_size nor the grids.
C10_RejectedLeavesGrid ==
    [][\A text \in EnteredTexts :
          (GenerateGrid(text) /\ ~(ParseInt(text).ok /\ InRange(ParseInt(text).value)))
              => UNCHANGED <<grid_size, grid_cells>>]_vars

(***************************************************************************)
(* Further properties of the exports.                                      *)
(***************************************************************************)
GeometryPreferences(prefs) ==
    <<prefs.cell_size, prefs.border_thickness, prefs.pocket_depth>>

\* C11: no step of export_grid_stl / create_stl and no export_openscad /
\* generate_openscad_file changes grid_size, the grids of the three views or
\* the geometry preferences (cell_size, border_thickness, pocket_depth).
C11_ExportsOnlyRead ==
    [][(ExportGridStl \/ CreateStlCell \/ CreateStlFinish \/ ExportNext \/ ExportOpenscad)
          => /\ grid_size' = grid_size
             /\ grid_cells' = grid_cells
             /\ GeometryPreferences(preferences') = GeometryPreferences(preferences)]_vars

C11_BothExportsDone ==
    /\ pc = "idle"
    /\ \A v \in ViewSet : built[v].done /\ exported_stls[v] # NoneVal
    /\ scad.written
    /\ InRange(grid_size)
    /\ grid_cells = GoodFile(grid_size).grid_cells

\* the cell create_stl emitted last, its corner (x, y) and its faces
LastCell == printed[Len(printed)]

\* faces are appended cell by cell: the faces of the last cell are the end of
\* the list, from the index LastStart finds walking back from the end
RECURSIVE LastStart(_)
LastStart(i) ==
    IF i >= 1 /\ face_cell[i] = Len(printed) - 1 THEN LastStart(i - 1) ELSE i + 1

LastFaces == LastStart(Len(faces))..Len(faces)

FacePoints(i) == [j \in 1..3 |-> vertices[faces[i][j] + 1]]

FaceZ(i) == {FacePoints(i)[j][3] : j \in 1..3}

InteriorCells(size) == {pos \in 0..(size * size - 1) :
    /\ pos \div size \in 1..(size - 2)
    /\ pos % size \in 1..(size - 2)}

InteriorAll(cells, size, value) ==
    \A pos \in InteriorCells(size) : cells[(pos \div size) + 1][(pos % size) + 1] = value

\* twice the signed area of the triangle a, b, p in the x-y plane
Turn2(a, b, p) == (b[1] - a[1]) * (p[2] - a[2]) - (b[2] - a[2]) * (p[1] - a[1])

\* face i is horizontal at height z and covers the point p of the x-y plane
CapCovers(i, z, p) ==
    LET t == FacePoints(i)
        d == <<Turn2(t[1], t[2], p), Turn2(t[2], t[3], p), Turn2(t[3], t[1], p)>>
    IN  /\ FaceZ(i) = {z}
        /\ (\A k \in 1..3 : d[k] >= 0) \/ (\A k \in 1..3 : d[k] <= 0)

\* a point inside the inner rectangle of the cell at pos (the cell's corner
\* moved in by the border thickness and one tenth)
InnerPoint(pos) ==
    <<(pos % grid_size) * preferences.cell_size + preferences.border_thickness + 1,
      (pos \div grid_size) * preferences.cell_size + preferences.border_thickness + 1>>

\* C12: when every interior cell of the built view is true, no opening passes
\* through any cell: no interior cell has walls from its inner bottom loop to
\* its inner top loop, and its caps at z = 0 and z = H cover the inside of its
\* inner rectangle.
C12_FilledIsSolid ==
    (pc = "written" /\ InRange(grid_size)
        /\ InteriorAll(grid_cells[CurrentView], grid_size, TRUE)) =>
        \A pos \in InteriorCells(grid_size) :
            /\ pos \notin TubeCells(faces)
            /\ \E i \in 1..Len(faces) : face_cell[i] = pos /\ CapCovers(i, 0, InnerPoint(pos))
            /\ \E i \in 1..Len(faces) :
                   /\ face_cell[i] = pos
                   /\ CapCovers(i, ExtrusionHeight(grid_size, preferences), InnerPoint(pos))

\* C13: when every interior cell of the N x N view is false, the mesh has
\* N*N cells, (N-2)^2 of them white, each with two pockets of 8 wall and 2
\* floor or ceiling triangles, 24*N*N vertices and
\* (N-2)^2 * (16+20) + (4N-4) * 4 + 4N * 2 faces.
C13_RecessedCounts ==
    (pc = "written" /\ grid_size >= 2 /\ InteriorAll(grid_cells[CurrentView], grid_size, FALSE)) =>
        LET N == grid_size
            inner == (N - 2) * (N - 2)
            pocketFaces == {i \in 1..Len(faces) : \E j \in 1..3 : LocalFace(i)[j] \in 16..23}
            bottom == {i \in pocketFaces : \A j \in 1..3 : LocalFace(i)[j] \in (8..11) \cup (16..19)}
            top == {i \in pocketFaces : \A j \in 1..3 : LocalFace(i)[j] \in (12..15) \cup (20..23)}
        IN  /\ Len(printed) = N * N
            /\ Cardinality({k \in 1..Len(printed) : printed[k].type = "white"}) = inner
            /\ Cardinality({k \in 1..Len(printed) : printed[k].type = "border"}) = 4 * N - 4
            /\ Len(vertices) = 24 * N * N
            /\ Len(faces) = inner * (16 + 20) + (4 * N - 4) * 4 + 4 * N * 2
            /\ pocketFaces = bottom \cup top
            /\ Cardinality(bottom) = 10 * inner
            /\ Cardinality(top) = 10 * inner
            /\ \A pos \in InteriorCells(N) :
                   LET own == {i \in 1..Len(faces) : face_cell[i] = pos}
                       low == {i \in own : \A j \in 1..3 : LocalFace(i)[j] \in (8..11) \cup (16..19)}
                       high == {i \in own : \A j \in 1..3 : LocalFace(i)[j] \in (12..15) \cup (20..23)}
                   IN  /\ Cardinality({i \in low : FaceZ(i) # {PocketFloorZ(N, preferences)}}) = 8
                       /\ Cardinality({i \in low : FaceZ(i) = {PocketFloorZ(N, preferences)}}) = 2
                       /\ Cardinality({i \in high : FaceZ(i) # {PocketCeilingZ(N, preferences)}}) = 8
                       /\ Cardinality({i \in high : FaceZ(i) = {PocketCeilingZ(N, preferences)}}) = 2

C13_RecessedTopBuilt ==
    /\ pc = "written"
    /\ CurrentView = "Top"
    /\ InRange(grid_size)
    /\ InteriorAll(grid_cells["Top"], grid_size, FALSE)
    /\ Len(faces) > 0

\* the outer wall triangles of the cell emitted last, by where they lie: a
\* triangle with vertices at z = 0 and at z = H, all on the line of the
\* x-y plane that bounds the cell to the north (y = row * cell_size), south,
\* west (x = col * cell_size) or east
OuterWall(axis, at) ==
    {i \in LastFaces :
        /\ FaceZ(i) = {0, ExtrusionHeight(grid_size, preferences)}
        /\ \A j \in 1..3 : FacePoints(i)[j][axis] = at}

\* C15: a cell emits an outer side wall, two triangles over local vertices
\* 0..7, to the north iff row = 0, to the south iff row = N-1, to the west
\* iff col = 0, to the east iff col = N-1; a cell with 1 <= row, col <= N-2
\* emits none.
C15_OuterWalls ==
    (Building /\ Len(printed) > 0) =>
        LET row == LastCell.row
            col == LastCell.col
            cs == preferences.cell_size
            north == OuterWall(2, row * cs)
            south == OuterWall(2, (row + 1) * cs)
            west == OuterWall(1, col * cs)
            east == OuterWall(1, (col + 1) * cs)
        IN  /\ Cardinality(north) = IF row = 0 THEN 2 ELSE 0
            /\ Cardinality(south) = IF row = grid_size - 1 THEN 2 ELSE 0
            /\ Cardinality(west) = IF col = 0 THEN 2 ELSE 0
            /\ Cardinality(east) = IF col = grid_size - 1 THEN 2 ELSE 0
            /\ \A i \in north \cup south \cup west \cup east :
                   \A j \in 1..3 : LocalFace(i)[j] \in 0..7
            /\ \A i \in LastFaces :
                   (\A j \in 1..3 : LocalFace(i)[j] \in 0..7) =>
                       \/ i \in north \cup south \cup west \cup east
                       \/ Cardinality(FaceZ(i)) = 1

C15_CornerAndInnerCell ==
    /\ pc = "cells"
    /\ InRange(grid_size)
    /\ Len(printed) > 0
    /\ LastCell.row = 0
    /\ LastCell.col = grid_size - 1
    /\ Cardinality(OuterWall(2, 0)) = 2
    /\ Cardinality(OuterWall(1, grid_size * preferences.cell_size)) = 2

\* the row vector v times the matrix R, as mesh.rotate applies a rotation
RowTimes(v, R) == [j \in 1..3 |-> v[1] * R[1][j] + v[2] * R[2][j] + v[3] * R[3][j]]

\* C16: the orientation of the written mesh is fixed by the view: Top is
\* not rotated, its translation is zero and its points are the assembled
\* ones; Side is rotated +90 degrees about Y, then +90 degrees about X; Front
\* -90 degrees about X, then 180 degrees about Y; the rotation acts on the
\* points of all cells and the translation is taken from the rotated points.
C16_Orientation ==
    (pc = "written" /\ stl_mesh.scale > 0) =>
        LET points == MeshVectors(vertices, faces)
            first == IF CurrentView = "Side" THEN RotationMatrix(<<0, 1, 0>>, 1)
                     ELSE RotationMatrix(<<1, 0, 0>>, 3)
            second == IF CurrentView = "Side" THEN RotationMatrix(<<1, 0, 0>>, 1)
                      ELSE RotationMatrix(<<0, 1, 0>>, 2)
            turned == [i \in 1..Len(points) |->
                IF CurrentView = "Top" THEN points[i]
                ELSE RowTimes(RowTimes(points[i], first), second)]
        IN  /\ Len(printed) = grid_size * grid_size
            /\ stl_mesh.scale = 3 * Len(faces)
            /\ stl_mesh.rotated = turned
            /\ stl_mesh.translation = Translation(SumPoints(points), SumPoints(turned))
            /\ CurrentView = "Top" =>
                   /\ stl_mesh.translation = <<0, 0, 0>>
                   /\ \A i \in 1..Len(points) :
                          WrittenPoint(stl_mesh, i) = [k \in 1..3 |-> stl_mesh.scale * points[i][k]]

C16_EveryViewWritten ==
    /\ pc = "written"
    /\ CurrentView = "Top"
    /\ stl_mesh.scale > 0
    /\ \A v \in {"Front", "Side"} : built[v].done
    /\ InRange(grid_size)
    /\ ~InteriorAll(grid_cells["Top"], grid_size, FALSE)

\* C17: a white cell's bottom pocket has four side walls from the inner
\* bottom loop (z = 0) to a flat floor at z = d' - b, its top pocket four side
\* walls from the inner top loop (z = H) to a ceiling at z = H - d' + b, with
\* d' = pocket_depth * cell_size; no face of the cell has a point strictly
\* between z = d' and z = H - d'.
C17_PocketHeights ==
    (Building /\ Len(printed) > 0 /\ LastCell.type = "white") =>
        LET cs == preferences.cell_size
            b == preferences.border_thickness
            d == preferences.pocket_depth * cs
            H == grid_size * cs
            x0 == LastCell.col * cs + b
            x1 == (LastCell.col + 1) * cs - b
            y0 == LastCell.row * cs + b
            y1 == (LastCell.row + 1) * cs - b
            onSide(i, axis, at) == \A j \in 1..3 : FacePoints(i)[j][axis] = at
            walls(zs) == {i \in LastFaces : FaceZ(i) = zs /\
                             (onSide(i, 1, x0) \/ onSide(i, 1, x1) \/ onSide(i, 2, y0) \/ onSide(i, 2, y1))}
            flat(z) == {i \in LastFaces : FaceZ(i) = {z} /\
                           \A j \in 1..3 : FacePoints(i)[j][1] \in {x0, x1} /\ FacePoints(i)[j][2] \in {y0, y1}}
        IN  /\ \A side \in {<<1, x0>>, <<1, x1>>, <<2, y0>>, <<2, y1>>} :
                   /\ Cardinality({i \in walls({0, d - b}) : onSide(i, side[1], side[2])}) = 2
                   /\ Cardinality({i \in walls({H - d + b, H}) : onSide(i, side[1], side[2])}) = 2
            /\ Cardinality(flat(d - b)) = 2
            /\ Cardinality(flat(H - d + b)) = 2
            /\ \A i \in LastFaces : \A z \in FaceZ(i) : ~(d < z /\ z < H - d)
            /\ \A i \in LastFaces :
                   FaceZ(i) \in {{0}, {H}, {0, d - b}, {d - b}, {H - d + b}, {H - d + b, H}}

C17_PocketCellEmitted ==
    /\ pc = "cells"
    /\ InRange(grid_size)
    /\ Len(printed) > 0
    /\ LastCell.type = "white"
    /\ 2 * preferences.pocket_depth < grid_size
    /\ \E i \in LastFaces : FaceZ(i) = {PocketFloorZ(grid_size, preferences)}

(***************************************************************************)
(* Properties of the CSG description.                                      *)
(***************************************************************************)
PrimitivesAt(holes, row, col) ==
    {k \in 1..Len(holes) : holes[k].row = row /\ holes[k].col = col}

\* the x-y cross-section of a translated cube is the square of side
\* cell_size - 2 * border_thickness set in by border_thickness from the
\* corner of a cell square; which axis carries the row is left open here
InsetSquare(box, row, col, prefs) ==
    /\ box.cube[1] = prefs.cell_size - 2 * prefs.border_thickness
    /\ box.cube[2] = prefs.cell_size - 2 * prefs.border_thickness
    /\ <<box.translate[1] - prefs.border_thickness, box.translate[2] - prefs.border_thickness>>
           \in {<<row * prefs.cell_size, col * prefs.cell_size>>,
                <<col * prefs.cell_size, row * prefs.cell_size>>}

\* the z extent of a translated cube
ZSpan(box) == <<box.translate[3], box.translate[3] + box.cube[3]>>

\* C14: for each view the CSG description has exactly one primitive for
\* every interior cell and none for any other cell; for a true cell a single
\* inset prism spanning z in [0, N*cell_size], for a false cell two inset
\* prisms, spanning [0, d'] and [N*cell_size - d', N*cell_size], with
\* d' = pocket_depth * cell_size.
C14_Primitives ==
    scad.written =>
        LET N == grid_size
            H == grid_size * preferences.cell_size
            d == preferences.pocket_depth * preferences.cell_size
        IN  \A v \in ViewSet :
            /\ \A k \in 1..Len(scad.holes[v]) :
                   scad.holes[v][k].row \in 1..(N - 2) /\ scad.holes[v][k].col \in 1..(N - 2)
            /\ \A row \in 1..(N - 2), col \in 1..(N - 2) :
                   /\ Cardinality(PrimitivesAt(scad.holes[v], row, col)) = 1
                   /\ \A k \in PrimitivesAt(scad.holes[v], row, col) :
                          LET boxes == scad.holes[v][k].boxes
                          IN  /\ \A n \in 1..Len(boxes) : InsetSquare(boxes[n], row, col, preferences)
                              /\ IF grid_cells[v][row + 1][col + 1]
                                 THEN /\ Len(boxes) = 1
                                      /\ ZSpan(boxes[1]) = <<0, H>>
                                 ELSE /\ Len(boxes) = 2
                                      /\ ZSpan(boxes[1]) = <<0, d>>
                                      /\ ZSpan(boxes[2]) = <<H - d, H>>

C14_BothPrimitivesWritten ==
    /\ scad.written
    /\ InRange(grid_size)
    /\ \E k \in 1..Len(scad.holes["Top"]) : Len(scad.holes["Top"][k].boxes) = 1
    /\ \E k \in 1..Len(scad.holes["Top"]) : Len(scad.holes["Top"][k].boxes) = 2
    /\ Len(scad.holes["Side"]) = (grid_size - 2) * (grid_size - 2)

\* the volumes subtracted along the tree, innermost first, and the solid
\* cubes they are subtracted from
RECURSIVE Subtractions(_)
Subtractions(t) ==
    IF t.op = "difference" THEN Append(Subtractions(t.left), t.right)
    ELSE IF t.op \in {"translate", "rotate"} THEN Subtractions(t.child)
    ELSE <<>>

RECURSIVE SolidCubes(_)
SolidCubes(t) ==
    IF t.op = "difference" THEN SolidCubes(t.left)
    ELSE IF t.op \in {"translate", "rotate"} THEN SolidCubes(t.child)
    ELSE IF t.op = "cube" THEN <<t.size>>
    ELSE <<>>

\* C18: the CSG tree has exactly one solid cube, of side N*cell_size, and
\* exactly three subtractions chained on it: the holes of Top first
\* (innermost), then those of Front, then those of Side (outermost); each
\* holes-volume is the union of the (N-2)*(N-2) primitives of its view.
C18_TreeOrder ==
    scad.written =>
        /\ SolidCubes(scad.tree) = <<grid_size * preferences.cell_size>>
        /\ Subtractions(scad.tree) =
               <<[op |-> "union", view |-> "Top"], [op |-> "union", view |-> "Front"],
                 [op |-> "union", view |-> "Side"]>>
        /\ grid_size >= 2 =>
               \A v \in ViewSet : Len(scad.holes[v]) = (grid_size - 2) * (grid_size - 2)

C18_TreeWritten ==
    /\ scad.written
    /\ InRange(grid_size)
    /\ Len(Subtractions(scad.tree)) = 3
    /\ scad.holes["Top"] # scad.holes["Front"]
    /\ scad.holes["Front"] # scad.holes["Side"]

\* C19: for every interior cell (row, col) the x-y footprint of its CSG
\* primitive is the inset footprint create_stl uses for the cell:
\* x in [col*cell_size + b, (col+1)*cell_size - b] and
\* y in [row*cell_size + b, (row+1)*cell_size - b].
C19_SameFootprint ==
    (scad.written /\ InRange(grid_size)) =>
        \A v \in ViewSet : \A k \in 1..Len(scad.holes[v]) :
            LET p == scad.holes[v][k]
                cell == CellVertices(p.row, p.col, grid_size, preferences)
            IN  \A n \in 1..Len(p.boxes) :
                    /\ p.boxes[n].translate[1] = cell[9][1]
                    /\ p.boxes[n].translate[1] + p.boxes[n].cube[1] = cell[11][1]
                    /\ p.boxes[n].translate[2] = cell[9][2]
                    /\ p.boxes[n].translate[2] + p.boxes[n].cube[2] = cell[11][2]
                    /\ cell[9][1] = p.col * preferences.cell_size + preferences.border_thickness
                    /\ cell[9][2] = p.row * preferences.cell_size + preferences.border_thickness

(***************************************************************************)
(* Further properties of the editor.                                       *)
(***************************************************************************)

\* C20: every editor operation that changes a cell of the grids
\* (toggle_cell, clear_grid, invert_selection, generate_grid) leaves
\* project_modified true, so that the grids never differ from the last
\* loaded, saved or new content while project_modified is false.
C20_ChangesMarkModified ==
    [][(/\ grid_cells' # grid_cells
        /\ \/ \E cell \in ToggleCells : ToggleCell(cell[1], cell[2], cell[3])
           \/ ClearGrid
           \/ InvertSelection
           \/ \E text \in EnteredTexts : GenerateGrid(text))
          => project_modified']_vars

(***************************************************************************)
(* C21: in every state the editor reaches, whenever current_project_path   *)
(* is set (so that export_grid_stl and export_openscad pass their "Please  *)
(* save the project first" guard), project_directory is set as well, so    *)
(* the exports can form their output paths; in particular after            *)
(* new_project followed by save_project_as.                                *)
(***************************************************************************)
C21_DirectoryWithPath ==
    current_project_path # NoneVal => project_directory # NoneVal

\* every cell of the marked two-cell border of every view holds false
MarkedBorderFalse(cells, size) ==
    \A v \in ViewSet : \A row \in 0..(size - 1), col \in 0..(size - 1) :
        IsMarkedBorder(row, col, size) => ~cells[v][row + 1][col + 1]

\* C22: after generate_grid and any sequence of editing operations
\* (toggle_cell as bound by show_view, clear_grid, invert_selection), every
\* cell of the marked border region of a view (row < 2, row >= N-2, col < 2
\* or col >= N-2) still holds false: an editing operation that starts from
\* grids of a valid size whose marked border is false ends with the marked
\* border false.
C22_MarkedBorderStaysFalse ==
    [][(/\ InRange(grid_size)
        /\ \A v \in ViewSet : IsSquare(grid_cells[v], grid_size)
        /\ MarkedBorderFalse(grid_cells, grid_size)
        /\ \/ \E cell \in ToggleCells : ToggleCell(cell[1], cell[2], cell[3])
           \/ ClearGrid
           \/ InvertSelection)
       => MarkedBorderFalse(grid_cells', grid_size')]_vars

(***************************************************************************)
(* The list of recent files.                                               *)
(***************************************************************************)
NoDuplicates(list) == \A i, j \in 1..Len(list) : list[i] = list[j] => i = j

PositionIn(list, path) == CHOOSE i \in 1..Len(list) : list[i] = path

\* the step is a handler that reaches its call add_to_recent_files(p), which
\* follows the assignment of p to current_project_path
AddsToRecentFiles(p) ==
    /\ current_project_path' = p
    /\ \/ \E file \in ProjectLoads :
             file.path = p /\ ~LoadRaises(file) /\ LoadProject(file)
       \/ \E path \in SavePaths :
             \/ p = path /\ SaveProject(path, TRUE, TRUE)
             \/ /\ p = Append(DirName(path), ProjectName(path))
                        \o <<ProjectName(path), ".grid">>
                /\ SaveProject(path, FALSE, TRUE)
             \/ p = path /\ SaveProjectAs(path, TRUE)
       \/ \E confirm \in BOOLEAN, content \in RecentContents :
             /\ ~(project_modified /\ ~confirm)
             /\ ~LoadRaises(content)
             /\ OpenRecentProject(p, TRUE, confirm, content)

\* C23: after any sequence of add_to_recent_files, clear_recent_files and
\* open_recent_project calls the recent_files list holds no path twice; and
\* immediately after add_to_recent_files(p), p is the first entry, the other
\* entries are entries of the list before, in their previous relative order,
\* and the list has at most max_recent_files entries.
C23_RecentFiles ==
    /\ [](NoDuplicates(recent_files))
    /\ [][\A p \in RecentPaths : AddsToRecentFiles(p) =>
            /\ recent_files' # <<>>
            /\ recent_files'[1] = p
            /\ \A i \in 2..Len(recent_files') :
                  /\ recent_files'[i] # p
                  /\ InList(recent_files, recent_files'[i])
            /\ \A i, j \in 2..Len(recent_files') :
                  i < j => PositionIn(recent_files, recent_files'[i])
                              < PositionIn(recent_files, recent_files'[j])
            /\ Len(recent_files') <= preferences'.max_recent_files]_vars

\* a list cut to max_recent_files entries, the project just opened or saved first
C23_ListFull ==
    /\ preferences.max_recent_files < DefaultMaxRecentFiles
    /\ Len(recent_files) = preferences.max_recent_files
    /\ recent_files[1] = current_project_path
    /\ recent_files[2] # current_project_path

=============================================================================
